---------------------------- MODULE Spec2Model ----------------------------
(***************************************************************************)
(* A model of cobe's reply scoring (cobe/scoring.py) and tokenizers        *)
(* (cobe/tokenizers.py).                                                   *)
(*                                                                         *)
(* Python floats are modelled as a binary floating-point format with       *)
(* MantBits significand bits, round-to-nearest-even, and a smallest step   *)
(* of 2^-FracBits: a float is the integer number of such steps ("units").  *)
(* IEEE double is the same format with 53 significand bits.                *)
(***************************************************************************)
EXTENDS Integers, Sequences, FiniteSets, TLC

VARIABLES
    raw1, raw2,      \* Scorer.normalize: two inputs
    norm1, norm2,    \* Scorer.normalize: the two values returned
    npc,             \* "input" before the calls, "done" after
    tkz,             \* the tokenizer in use
    isUnicode,       \* whether the input text is a unicode object (or a str)
    origin,          \* "text": the run starts with split(input); "tokens": with join(toks)
    input,           \* the text first given to split
    cur,             \* the current text
    toks,            \* the current token sequence
    tpc,             \* "text", "tokens" or "TypeError"
    rounds,          \* number of join calls so far
    firstTokens,     \* what the first split returned
    firstText,       \* what the first join returned
    cache,           \* CobeScorer.cache: edge_id -> probability
    gprob,           \* the graph: what get_edge_probability returns for each edge_id
    lastOp,          \* the last call made
    arg,             \* the reply given to the last call, if it was a score call
    roundCalls,      \* score calls since the last end
    ended,           \* the cache as it was when end was last called
    nq,              \* get_edge_probability calls per edge_id since the last end
    used,            \* score: the probability used for each edge of the reply, in order
    queried,         \* score: the edge_ids get_edge_probability was called for, in order
    nWords,          \* score: n_words
    damping,         \* score: the branch taken at lines 85-88
    bits,            \* score: info before the damping
    info,            \* score: info after the damping
    scorers,         \* ScorerGroup.scorers: the (weight, scorer) pairs
    callee,          \* the object the last call was made on
    outcome,         \* how the last call ended: the value returned or the error raised
    endCalls         \* ScorerGroup.end: the members whose end was called, in order

nvars == <<raw1, raw2, norm1, norm2, npc>>
tvars == <<tkz, isUnicode, origin, input, cur, toks, tpc, rounds, firstTokens, firstText>>

cvars == <<cache, gprob, lastOp, arg, roundCalls, ended, nq, used, queried,
           nWords, damping, bits, info>>

gvars == <<scorers, callee, outcome, endCalls>>

vars == <<nvars, tvars, cvars, gvars>>

\* The state of a component that a specification leaves out.
IdleNormalize ==
    /\ raw1 = 0 /\ raw2 = 0 /\ norm1 = 0 /\ norm2 = 0 /\ npc = "idle"

IdleTokenizer ==
    /\ tkz = "none" /\ isUnicode = TRUE /\ origin = "none"
    /\ input = <<>> /\ cur = <<>> /\ toks = <<>> /\ tpc = "idle"
    /\ rounds = 0 /\ firstTokens = <<>> /\ firstText = <<>>

EmptyCache == [id \in {} |-> 0]

NoReply == [edges |-> <<>>, order |-> 1]

IdleScorer ==
    /\ cache = EmptyCache /\ gprob = EmptyCache /\ lastOp = "idle"
    /\ arg = NoReply /\ roundCalls = 0 /\ ended = EmptyCache /\ nq = EmptyCache
    /\ used = <<>> /\ queried = <<>> /\ nWords = 0 /\ damping = "none"
    /\ bits = 0 /\ info = 0

\* A call that returned None.
ReturnedNone == [status |-> "return", type |-> "NoneType", value |-> 0]

IdleGroup ==
    /\ scorers = <<>> /\ callee = "none" /\ outcome = ReturnedNone /\ endCalls = <<>>

-----------------------------------------------------------------------------
(* Bounds *)

MantBits == 4        \* significand bits of the float format
FracBits == 6        \* 1.0 is 2^FracBits units
MaxLen == 5          \* longest input text, in characters
MaxRounds == 2       \* split/join round trips per run
MaxEdges == 8        \* longest reply, in edges
MaxOrder == 2        \* largest graph.order
MaxCalls == 2        \* score calls between two end calls
MaxScorers == 3      \* most members of a ScorerGroup

-----------------------------------------------------------------------------
(* Floating point *)

RECURSIVE Pow2(_)
Pow2(n) == IF n = 0 THEN 1 ELSE 2 * Pow2(n - 1)

RECURSIVE BitLen(_)
BitLen(q) == IF q = 0 THEN 0 ELSE 1 + BitLen(q \div 2)

One == Pow2(FracBits)

\* The spacing of the floats around the non-negative integer q (in units).
Ulp(q) == IF q < Pow2(MantBits) THEN 1 ELSE Pow2(BitLen(q) - MantBits)

\* The float nearest to the rational n/d (n >= 0, d > 0), ties to even.
RoundPos(n, d) ==
    LET q        == n \div d
        g        == Ulp(q)
        lo       == (q \div g) * g
        twiceMid == 2 * lo + g
    IN  IF 2 * n < twiceMid * d THEN lo
        ELSE IF 2 * n > twiceMid * d THEN lo + g
        ELSE IF (lo \div g) % 2 = 0 THEN lo ELSE lo + g

Round(n, d) == IF n >= 0 THEN RoundPos(n, d) ELSE 0 - RoundPos(0 - n, d)

IsFloat(k) == Round(k, 1) = k

FAdd(a, b) == Round(a + b, 1)
FSub(a, b) == Round(a - b, 1)
FMul(a, b) == Round(a * b, One)
\* a / b for b # 0 (Python raises ZeroDivisionError for b = 0)
FDiv(a, b) == IF b > 0 THEN Round(a * One, b) ELSE Round(0 - a * One, 0 - b)

\* float(n) for a Python int n
FromInt(n) == Round(n * One, 1)

RECURSIVE ISqrtIn(_, _, _)
ISqrtIn(n, lo, hi) ==
    IF lo = hi THEN lo
    ELSE LET mid == (lo + hi + 1) \div 2
         IN  IF mid * mid <= n THEN ISqrtIn(n, mid, hi) ELSE ISqrtIn(n, lo, mid - 1)

\* The integer part of the square root of n >= 0.
ISqrt(n) == ISqrtIn(n, 0, Pow2((BitLen(n) + 1) \div 2))

\* math.sqrt(a) for a float a >= 0: the float nearest to the square root.
FSqrt(a) ==
    LET n        == a * One
        r        == ISqrt(n)
        g        == Ulp(r)
        lo       == (r \div g) * g
        twiceMid == 2 * lo + g
    IN  IF 4 * n < twiceMid * twiceMid THEN lo
        ELSE IF 4 * n > twiceMid * twiceMid THEN lo + g
        ELSE IF (lo \div g) % 2 = 0 THEN lo ELSE lo + g

\* math.log(p, 2) for a float p that is a power of two, 0 < p <= 1.
Log2(p) == 0 - FromInt(FracBits - (BitLen(p) - 1))

-----------------------------------------------------------------------------
(* Scorer.normalize, Scorer.finish *)

\* normalize with the "1.0 -" of line 24 dropped
normalizeNoComplement(score) ==
    IF score < 0 THEN score
    ELSE FDiv(One, FAdd(One, score))

normalize(score) ==
    IF score < 0 THEN score
    ELSE FSub(One, FDiv(One, FAdd(One, score)))

finish(reverse, score) ==
    IF reverse THEN FSub(One, score) ELSE score

-----------------------------------------------------------------------------
(* Characters *)

\* KELVIN SIGN: an uppercase letter outside A-Z whose lowercase is "k".
Kelvin == "U+212A"

Chars == {"k", "K", Kelvin, "1", ".", "!", "?", ":", "'", "-", " ", "\t"}

SpaceChars == {" ", "\t"}                     \* unicode.isspace, \s
AlphaChars == {"k", "K", Kelvin}              \* unicode.isalpha
WordChars  == AlphaChars \cup {"1"}           \* \w under re.UNICODE
NonWordChars  == Chars \ WordChars            \* [^\w]
NonSpaceChars == Chars \ SpaceChars           \* \S
PunctChars == Chars \ (WordChars \cup SpaceChars)   \* [^\w\s]
AsciiUpper == {"K"}                           \* A-Z
Digits     == {"1"}                           \* 0-9
Terminators == {".", "!", "?"}

upper(c) == IF c = "k" THEN "K" ELSE c
lower(c) == IF c \in {"K", Kelvin} THEN "k" ELSE c

UpperText(text) == [i \in 1..Len(text) |-> upper(text[i])]

\* The length of the longest run of characters of S that starts at text[i].
Run(text, i, S) ==
    LET ns == {n \in 0..(Len(text) - i + 1) : \A j \in i..(i + n - 1) : text[j] \in S}
    IN  CHOOSE n \in ns : \A m \in ns : m <= n

RECURSIVE Concat(_)
Concat(tokens) ==
    IF tokens = <<>> THEN <<>> ELSE Head(tokens) \o Concat(Tail(tokens))

\* unicode.strip()
Strip(text) ==
    LET lead  == Run(text, 1, SpaceChars)
        rest  == SubSeq(text, lead + 1, Len(text))
        keep  == {n \in 0..Len(rest) : n = 0 \/ rest[n] \notin SpaceChars}
        last  == CHOOSE n \in keep : \A m \in keep : m <= n
    IN  SubSeq(rest, 1, last)

-----------------------------------------------------------------------------
(* WhitespaceTokenizer *)

\* text.split(): the maximal runs of non-whitespace characters
RECURSIVE SplitWhitespace(_, _)
SplitWhitespace(text, i) ==
    IF i > Len(text) THEN <<>>
    ELSE IF text[i] \in SpaceChars THEN SplitWhitespace(text, i + 1)
    ELSE LET n == Run(text, i, NonSpaceChars)
         IN  <<SubSeq(text, i, i + n - 1)>> \o SplitWhitespace(text, i + n)

WhitespaceSplit(text) == SplitWhitespace(text, 1)

\* " ".join(tokens)
RECURSIVE WhitespaceJoin(_)
WhitespaceJoin(tokens) ==
    IF tokens = <<>> THEN <<>>
    ELSE IF Len(tokens) = 1 THEN Head(tokens)
    ELSE Head(tokens) \o <<" ">> \o WhitespaceJoin(Tail(tokens))

-----------------------------------------------------------------------------
(* MegaHALTokenizer *)

\* The match of ([A-Z']+|[0-9]+|[^A-Z'0-9]+) at text[i].
MegaHALMatch(text, i) ==
    LET words == AsciiUpper \cup {"'"}
    IN  IF text[i] \in words THEN Run(text, i, words)
        ELSE IF text[i] \in Digits THEN Run(text, i, Digits)
        ELSE Run(text, i, Chars \ (words \cup Digits))

RECURSIVE MegaHALFindAll(_, _)
MegaHALFindAll(text, i) ==
    IF i > Len(text) THEN <<>>
    ELSE LET n == MegaHALMatch(text, i)
         IN  <<SubSeq(text, i, i + n - 1)>> \o MegaHALFindAll(text, i + n)

\* split with phrase.upper() left out
MegaHALSplitNoUpper(phrase) ==
    IF Len(phrase) = 0 THEN <<>>
    ELSE LET closed == IF phrase[Len(phrase)] \notin Terminators
                      THEN phrase \o <<".">> ELSE phrase
         IN  MegaHALFindAll(closed, 1)

MegaHALSplit(phrase) ==
    IF Len(phrase) = 0 THEN <<>>
    ELSE LET closed == IF phrase[Len(phrase)] \notin Terminators
                      THEN phrase \o <<".">> ELSE phrase
         IN  MegaHALFindAll(UpperText(closed), 1)

\* The loop of join: chars[1..i-1] are done, start is the flag.
\* (Python's index of chars[i] is i - 1.)
RECURSIVE MegaHALCapitalize(_, _, _)
MegaHALCapitalize(chars, i, start) ==
    IF i > Len(chars) THEN chars
    ELSE LET char == chars[i]
         IN  IF char \in AlphaChars
             THEN MegaHALCapitalize(
                      [chars EXCEPT ![i] = IF start THEN upper(char) ELSE lower(char)],
                      i + 1, FALSE)
             ELSE IF i - 1 > 2 /\ chars[i - 1] \in Terminators /\ char \in SpaceChars
                  THEN MegaHALCapitalize(chars, i + 1, TRUE)
                  ELSE MegaHALCapitalize(chars, i + 1, start)

MegaHALJoin(words) == MegaHALCapitalize(Concat(words), 1, TRUE)

-----------------------------------------------------------------------------
(* CobeTokenizer *)

\* The length of the match of \w+:\S+ at text[i], 0 if none.
CobeUrl(text, i) ==
    LET w == Run(text, i, WordChars)
        s == Run(text, i + w + 1, NonSpaceChars)
    IN  IF w >= 1 /\ i + w <= Len(text) /\ text[i + w] = ":" /\ s >= 1
        THEN w + 1 + s ELSE 0

\* The length of the match of [^\w\s][^\w]*[^\w\s] at text[i], 0 if none.
CobePunctuation(text, i) ==
    LET m    == Run(text, i + 1, NonWordChars)
        ends == {j \in (i + 1)..(i + m) : text[j] \in PunctChars}
    IN  IF text[i] \in PunctChars /\ ends # {}
        THEN (CHOOSE j \in ends : \A k \in ends : k <= j) - i + 1
        ELSE 0

\* The match of the whole regex at text[i]: the first alternative that matches.
CobeMatch(text, i) ==
    IF CobeUrl(text, i) > 0 THEN CobeUrl(text, i)
    ELSE IF Run(text, i, WordChars \cup {"'", "-"}) > 0
         THEN Run(text, i, WordChars \cup {"'", "-"})
    ELSE IF CobePunctuation(text, i) > 0 THEN CobePunctuation(text, i)
    ELSE IF text[i] \in PunctChars THEN 1
    ELSE Run(text, i, SpaceChars)

RECURSIVE CobeFindAll(_, _)
CobeFindAll(text, i) ==
    IF i > Len(text) THEN <<>>
    ELSE LET n == CobeMatch(text, i)
         IN  <<SubSeq(text, i, i + n - 1)>> \o CobeFindAll(text, i + n)

CobeSplit(phrase) ==
    LET stripped == Strip(phrase)
        tokens   == CobeFindAll(stripped, 1)
    IN  [i \in 1..Len(tokens) |->
            IF tokens[i][1] = " " /\ Len(tokens[i]) > 1 THEN <<" ">> ELSE tokens[i]]

CobeJoin(words) == Concat(words)

-----------------------------------------------------------------------------
(* split and join of the three tokenizers *)

Tokenizers == {"WhitespaceTokenizer", "MegaHALTokenizer", "CobeTokenizer"}

\* The characters the texts given to each tokenizer are drawn from.
Alphabet(t) ==
    IF t = "WhitespaceTokenizer" THEN {"k", " ", "\t"}
    ELSE IF t = "MegaHALTokenizer" THEN {"k", "K", Kelvin, "1", ".", " "}
    ELSE {"k", ".", ":", "-", " ", "\t"}

Texts(t) == UNION {[1..n -> Alphabet(t)] : n \in 0..MaxLen}

\* A str (not unicode) holds no character beyond ASCII.
IsAscii(text) == \A i \in 1..Len(text) : text[i] # Kelvin

InitTokenizer ==
    /\ IdleNormalize
    /\ IdleScorer
    /\ IdleGroup
    /\ tkz \in Tokenizers
    /\ input \in Texts(tkz)
    /\ isUnicode \in {TRUE, FALSE}
    /\ (isUnicode = FALSE => IsAscii(input))
    /\ origin \in {"text", "tokens"}
    /\ cur = IF origin = "text" THEN input ELSE <<>>
    \* a run that starts with join is given the characters of input as tokens
    /\ toks = IF origin = "text" THEN <<>> ELSE [i \in 1..Len(input) |-> <<input[i]>>]
    /\ tpc = origin
    /\ rounds = 0
    /\ firstTokens = <<>>
    /\ firstText = <<>>

SplitResult(t, text) ==
    IF t = "WhitespaceTokenizer" THEN WhitespaceSplit(text)
    ELSE IF t = "MegaHALTokenizer" THEN MegaHALSplit(text)
    ELSE CobeSplit(text)

JoinResult(t, tokens) ==
    IF t = "WhitespaceTokenizer" THEN WhitespaceJoin(tokens)
    ELSE IF t = "MegaHALTokenizer" THEN MegaHALJoin(tokens)
    ELSE CobeJoin(tokens)

\* tokenizer.split(cur)
Split ==
    /\ tpc = "text"
    /\ rounds < MaxRounds
    /\ IF tkz # "WhitespaceTokenizer" /\ ~isUnicode
       THEN /\ tpc' = "TypeError"
            /\ UNCHANGED <<toks, firstTokens>>
       ELSE /\ toks' = SplitResult(tkz, cur)
            /\ firstTokens' = IF rounds = 0 THEN toks' ELSE firstTokens
            /\ tpc' = "tokens"
    /\ UNCHANGED <<tkz, isUnicode, origin, input, cur, rounds, firstText>>
    /\ UNCHANGED <<nvars, cvars, gvars>>

\* tokenizer.join(toks)
Join ==
    /\ tpc = "tokens"
    /\ cur' = JoinResult(tkz, toks)
    /\ firstText' = IF rounds = 0 THEN cur' ELSE firstText
    /\ rounds' = rounds + 1
    /\ tpc' = "text"
    /\ UNCHANGED <<tkz, isUnicode, origin, input, toks, firstTokens>>
    /\ UNCHANGED <<nvars, cvars, gvars>>

NextTokenizer == Split \/ Join

SpecTokenizer == InitTokenizer /\ [][NextTokenizer]_vars

-----------------------------------------------------------------------------
(* Replies and the graph *)

EdgeIds == {"e1", "e2"}

\* The probabilities the graph returns: 1/2 and 1/4.
Probabilities == {Pow2(FracBits - 1), Pow2(FracBits - 2)}

\* edge.probability, the precomputed attribute of an edge
EdgeProbability(id) == IF id = "e1" THEN Pow2(FracBits - 1) ELSE Pow2(FracBits - 2)

Patterns == {"e1", "mixed"}

\* The reply lengths and the numbers of edges with has_space that are tried.
Lengths == {0, 1, 2, MaxEdges}
Spaces  == {0, 1, MaxEdges}

\* A reply of n edges under a graph of the given order; its edges carry the
\* ids of the pattern and the first `spaces` of them have has_space set.
MakeReply(n, pattern, spaces, order) ==
    [edges |-> [i \in 1..n |->
                  LET id == IF pattern = "mixed"
                            THEN (IF i % 2 = 1 THEN "e1" ELSE "e2")
                            ELSE pattern
                  IN  [edge_id |-> id, has_space |-> i <= spaces,
                       probability |-> EdgeProbability(id)]],
     order |-> order]

Replies ==
    {MakeReply(n, pat, sp, ord) :
        n \in Lengths, pat \in Patterns, sp \in Spaces, ord \in 1..MaxOrder}

ReplyIds(reply) == {reply.edges[i].edge_id : i \in 1..Len(reply.edges)}

-----------------------------------------------------------------------------
(* CobeScorer *)

Put(c, id, p) == [x \in (DOMAIN c) \cup {id} |-> IF x = id THEN p ELSE c[x]]

\* Lines 64-68 with the cache never consulted: every edge queries the graph.
LookupAlwaysQueries(c, graph, id) ==
    [p |-> graph[id], hit |-> FALSE, cache |-> Put(c, id, graph[id])]

\* Lines 64-68: the probability of an edge, from the cache or from the graph.
Lookup(c, graph, id) ==
    IF id \in DOMAIN c
    THEN [p |-> c[id], hit |-> TRUE, cache |-> c]
    ELSE [p |-> graph[id], hit |-> FALSE, cache |-> Put(c, id, graph[id])]

\* Lines 63-70: the loop over reply.edges.
RECURSIVE ScoreEdges(_, _, _)
ScoreEdges(edges, graph, st) ==
    IF edges = <<>> THEN st
    ELSE LET id   == Head(edges).edge_id
             look == Lookup(st.cache, graph, id)
         IN  ScoreEdges(Tail(edges), graph,
                 [cache   |-> look.cache,
                  info    |-> FAdd(st.info, 0 - Log2(look.p)),
                  queried |-> IF look.hit THEN st.queried ELSE Append(st.queried, id),
                  used    |-> Append(st.used, look.p)])

\* Lines 77-83
NWords(reply) ==
    Len(reply.edges) - (reply.order - 1) * 2
        + Cardinality({i \in 1..Len(reply.edges) : reply.edges[i].has_space})

\* The damping with the two tiers tested in the other order.
DampTwoTier(i, n_words) ==
    IF n_words >= 16
    THEN [info |-> FDiv(i, FromInt(n_words)), branch |-> "linear"]
    ELSE IF n_words > 8
    THEN [info |-> FDiv(i, FSqrt(FromInt(n_words - 1))), branch |-> "sqrt"]
    ELSE [info |-> i, branch |-> "none"]

\* Lines 85-88
Damp(i, n_words) ==
    IF n_words > 8
    THEN [info |-> FDiv(i, FSqrt(FromInt(n_words - 1))), branch |-> "sqrt"]
    ELSE IF n_words >= 16
    THEN [info |-> FDiv(i, FromInt(n_words)), branch |-> "linear"]
    ELSE [info |-> i, branch |-> "none"]

\* CobeScorer.score(reply) with the cache c and the graph as given.
CobeScorerScore(c, graph, reply) ==
    LET loop == ScoreEdges(reply.edges, graph,
                    [cache |-> c, info |-> 0, queried |-> <<>>, used |-> <<>>])
        n    == NWords(reply)
        d    == Damp(loop.info, n)
    IN  [cache |-> loop.cache, queried |-> loop.queried, used |-> loop.used,
         bits |-> loop.info, n_words |-> n, branch |-> d.branch, info |-> d.info,
         value |-> finish(FALSE, normalize(d.info))]

\* An end that leaves the cache alone, as Scorer.end does.
KeepCache(c) == c

\* CobeScorer.end
EndCache(c) == EmptyCache

Count(seq, x) == Cardinality({i \in 1..Len(seq) : seq[i] = x})

-----------------------------------------------------------------------------
(* Scorer, InformationScorer, LengthScorer *)

\* The scorer objects: one CobeScorer, one InformationScorer, a
\* LengthScorer(reverse=True), a plain Scorer, and a LengthScorer subclass of
\* the caller's whose end raises.
Instances == {"cobe", "information", "lengthReversed", "base", "raisingEnd"}

Returned(v, c) == [status |-> "return", type |-> "float", value |-> v, cache |-> c]
Raised(e, c)   == [status |-> "raise", type |-> e, value |-> 0, cache |-> c]

\* Lines 98-100: the loop of InformationScorer.score
RECURSIVE InformationSum(_)
InformationSum(edges) ==
    IF edges = <<>> THEN 0
    ELSE FAdd(InformationSum(SubSeq(edges, 1, Len(edges) - 1)),
              0 - Log2(edges[Len(edges)].probability))

\* InformationScorer.score: info /= len(reply.edges) divides by zero for a
\* reply without edges.
InformationScorerScore(reverse, reply) ==
    IF Len(reply.edges) = 0
    THEN [status |-> "raise", type |-> "ZeroDivisionError", value |-> 0]
    ELSE [status |-> "return", type |-> "float",
          value |-> finish(reverse,
                        normalize(FDiv(InformationSum(reply.edges),
                                       FromInt(Len(reply.edges)))))]

\* LengthScorer.score
LengthScorerScore(reverse, reply) ==
    [status |-> "return", type |-> "float",
     value |-> finish(reverse, normalize(FromInt(Len(reply.edges))))]

\* Scorer.score: the exception class is returned, not raised
ScorerScore(reply) ==
    [status |-> "return", type |-> "NotImplementedError", value |-> 0]

\* s.score(reply) for the scorer object s, with the CobeScorer's cache c
MemberScore(s, c, graph, reply) ==
    IF s = "cobe"
    THEN Returned(CobeScorerScore(c, graph, reply).value,
                  CobeScorerScore(c, graph, reply).cache)
    ELSE LET r == IF s = "information" THEN InformationScorerScore(FALSE, reply)
                  ELSE IF s = "lengthReversed" THEN LengthScorerScore(TRUE, reply)
                  ELSE IF s = "raisingEnd" THEN LengthScorerScore(FALSE, reply)
                  ELSE ScorerScore(reply)
         IN  [status |-> r.status, type |-> r.type, value |-> r.value, cache |-> c]

\* s.end(reply): Scorer.end does nothing, CobeScorer.end clears the cache
MemberEnd(s, c) ==
    IF s = "raisingEnd" THEN [status |-> "raise", cache |-> c]
    ELSE IF s = "cobe" THEN [status |-> "return", cache |-> EndCache(c)]
    ELSE [status |-> "return", cache |-> c]

-----------------------------------------------------------------------------
(* ScorerGroup *)

\* The loop of ScorerGroup.score with "score = weight * ..." for "score += ..."
RECURSIVE GroupScoreLoopOverwrite(_, _, _, _, _)
GroupScoreLoopOverwrite(pairs, score, c, graph, reply) ==
    IF pairs = <<>> THEN Returned(score, c)
    ELSE LET r == MemberScore(Head(pairs).scorer, c, graph, reply)
         IN  IF r.status = "raise" THEN r
             ELSE IF r.type # "float" THEN Raised("TypeError", r.cache)
             ELSE GroupScoreLoopOverwrite(Tail(pairs),
                      FMul(Head(pairs).weight, r.value), r.cache, graph, reply)

\* Lines 42-47: the loop of ScorerGroup.score. An error raised by a member
\* ends the loop; weight * NotImplementedError raises TypeError.
RECURSIVE GroupScoreLoop(_, _, _, _, _)
GroupScoreLoop(pairs, score, c, graph, reply) ==
    IF pairs = <<>> THEN Returned(score, c)
    ELSE LET r == MemberScore(Head(pairs).scorer, c, graph, reply)
         IN  IF r.status = "raise" THEN r
             ELSE IF r.type # "float" THEN Raised("TypeError", r.cache)
             ELSE GroupScoreLoop(Tail(pairs),
                      FAdd(score, FMul(Head(pairs).weight, r.value)),
                      r.cache, graph, reply)

\* The loop of ScorerGroup.end with a member's error caught and dropped
RECURSIVE GroupEndLoopSwallow(_, _, _)
GroupEndLoopSwallow(pairs, called, c) ==
    IF pairs = <<>> THEN [status |-> "return", called |-> called, cache |-> c]
    ELSE LET s == Head(pairs).scorer
             r == MemberEnd(s, c)
         IN  GroupEndLoopSwallow(Tail(pairs), Append(called, s), r.cache)

\* Lines 38-39: the loop of ScorerGroup.end. An error raised by a member's
\* end ends the loop.
RECURSIVE GroupEndLoop(_, _, _)
GroupEndLoop(pairs, called, c) ==
    IF pairs = <<>> THEN [status |-> "return", called |-> called, cache |-> c]
    ELSE LET s == Head(pairs).scorer
             r == MemberEnd(s, c)
         IN  IF r.status = "raise"
             THEN [status |-> "raise", called |-> Append(called, s), cache |-> r.cache]
             ELSE GroupEndLoop(Tail(pairs), Append(called, s), r.cache)

-----------------------------------------------------------------------------
(* The scorers called one by one, while the graph learns *)

\* The replies given to the scorers other than the CobeScorer, and to the
\* group: no edge, two edges, MaxEdges edges.
SmallReplies == {MakeReply(n, "mixed", 1, 1) : n \in {0, 2, MaxEdges}}

\* The step taken was not a CobeScorer.score call.
NoDetail ==
    /\ used' = <<>> /\ queried' = <<>> /\ nWords' = 0
    /\ damping' = "none" /\ bits' = 0 /\ info' = 0

\* The scorers as constructed, an empty group, and a graph that does not change.
InitGroup ==
    /\ IdleNormalize
    /\ IdleTokenizer
    /\ cache = EmptyCache
    /\ gprob = [id \in EdgeIds |-> EdgeProbability(id)]
    /\ lastOp = "init"
    /\ arg = NoReply
    /\ roundCalls = 0 /\ ended = EmptyCache /\ nq = EmptyCache
    /\ used = <<>> /\ queried = <<>> /\ nWords = 0 /\ damping = "none"
    /\ bits = 0 /\ info = 0
    /\ scorers = <<>>
    /\ callee = "none"
    /\ outcome = ReturnedNone
    /\ endCalls = <<>>

InitScorer ==
    /\ IdleNormalize
    /\ IdleTokenizer
    /\ cache = EmptyCache
    /\ gprob \in [EdgeIds -> Probabilities]
    /\ lastOp = "init"
    /\ arg = NoReply
    /\ roundCalls = 0
    /\ ended = EmptyCache
    /\ nq = [id \in EdgeIds |-> 0]
    /\ used = <<>> /\ queried = <<>> /\ nWords = 0 /\ damping = "none"
    /\ bits = 0 /\ info = 0
    /\ scorers = <<>>
    /\ callee = "none"
    /\ outcome = ReturnedNone
    /\ endCalls = <<>>

\* CobeScorer.score(reply)
CobeScore(reply) ==
    /\ roundCalls < MaxCalls
    /\ \E r \in {CobeScorerScore(cache, gprob, reply)} :
           /\ cache' = r.cache
           /\ queried' = r.queried
           /\ used' = r.used
           /\ nq' = [id \in EdgeIds |-> nq[id] + Count(r.queried, id)]
           /\ nWords' = r.n_words
           /\ damping' = r.branch
           /\ bits' = r.bits
           /\ info' = r.info
           /\ outcome' = [status |-> "return", type |-> "float", value |-> r.value]
    /\ arg' = reply
    /\ roundCalls' = roundCalls + 1
    /\ lastOp' = "score"
    /\ callee' = "cobe"
    /\ UNCHANGED <<gprob, ended, scorers, endCalls>>
    /\ UNCHANGED <<nvars, tvars>>

\* CobeScorer.end(reply)
CobeEnd ==
    /\ cache' = EndCache(cache)
    /\ ended' = cache
    /\ nq' = [id \in EdgeIds |-> 0]
    /\ roundCalls' = 0
    /\ lastOp' = "end"
    /\ callee' = "cobe"
    /\ outcome' = ReturnedNone
    /\ arg' = NoReply
    /\ NoDetail
    /\ UNCHANGED <<gprob, scorers, endCalls>>
    /\ UNCHANGED <<nvars, tvars>>

\* s.score(reply) for a scorer other than the CobeScorer
OtherScore(s, reply) ==
    /\ \E r \in {MemberScore(s, cache, gprob, reply)} :
           outcome' = [status |-> r.status, type |-> r.type, value |-> r.value]
    /\ lastOp' = "score"
    /\ callee' = s
    /\ arg' = reply
    /\ NoDetail
    /\ UNCHANGED <<cache, gprob, roundCalls, ended, nq, scorers, endCalls>>
    /\ UNCHANGED <<nvars, tvars>>

\* s.end(reply) for a scorer other than the CobeScorer
OtherEnd(s) ==
    /\ \E r \in {MemberEnd(s, cache)} :
           outcome' = IF r.status = "return" THEN ReturnedNone
                      ELSE [status |-> "raise", type |-> "Exception", value |-> 0]
    /\ lastOp' = "end"
    /\ callee' = s
    /\ arg' = NoReply
    /\ NoDetail
    /\ UNCHANGED <<cache, gprob, roundCalls, ended, nq, scorers, endCalls>>
    /\ UNCHANGED <<nvars, tvars>>

\* The graph learns: the probability of an edge changes.
Learn(id, p) ==
    /\ p # gprob[id]
    /\ gprob' = [gprob EXCEPT ![id] = p]
    /\ lastOp' = "learn"
    /\ callee' = "graph"
    /\ outcome' = ReturnedNone
    /\ arg' = NoReply
    /\ NoDetail
    /\ UNCHANGED <<cache, roundCalls, ended, nq, scorers, endCalls>>
    /\ UNCHANGED <<nvars, tvars>>

Next ==
    \/ \E reply \in Replies : CobeScore(reply)
    \/ CobeEnd
    \/ \E id \in EdgeIds, p \in Probabilities : Learn(id, p)

Spec == InitScorer /\ [][Next]_vars

\* The scorers that keep no state, called one by one.
NextStateless ==
    \/ \E s \in Instances \ {"cobe"}, reply \in Replies : OtherScore(s, reply)
    \/ \E s \in Instances \ {"cobe"} : OtherEnd(s)

SpecStateless == InitGroup /\ [][NextStateless]_vars

-----------------------------------------------------------------------------
(* A ScorerGroup over the scorers *)

\* The weights tried: 1.0 and 0.75.
Whole == One
ThreeQuarters == 3 * Pow2(FracBits - 2)

\* The (weight, scorer) pairs given to add_scorer.
Pairs ==
    {[weight |-> ThreeQuarters, scorer |-> "cobe"],
     [weight |-> Whole,         scorer |-> "cobe"],
     [weight |-> Whole,         scorer |-> "information"],
     [weight |-> ThreeQuarters, scorer |-> "lengthReversed"],
     [weight |-> Whole,         scorer |-> "base"],
     [weight |-> ThreeQuarters, scorer |-> "raisingEnd"]}

\* The CobeScorer variables that the group's calls do not reach.
NoCobeDetail ==
    UNCHANGED <<roundCalls, ended, nq, used, queried, nWords, damping, bits, info>>

\* group.add_scorer(weight, scorer)
AddScorer(weight, scorer) ==
    /\ Len(scorers) < MaxScorers
    /\ scorers' = Append(scorers, [weight |-> weight, scorer |-> scorer])
    /\ lastOp' = "add_scorer"
    /\ callee' = "group"
    /\ outcome' = ReturnedNone
    /\ arg' = NoReply
    /\ endCalls' = <<>>
    /\ UNCHANGED <<cache, gprob>>
    /\ NoCobeDetail
    /\ UNCHANGED <<nvars, tvars>>

\* group.score(reply)
GroupScore(reply) ==
    /\ \E r \in {GroupScoreLoop(scorers, 0, cache, gprob, reply)} :
           /\ outcome' = [status |-> r.status, type |-> r.type, value |-> r.value]
           /\ cache' = r.cache
    /\ lastOp' = "score"
    /\ callee' = "group"
    /\ arg' = reply
    /\ endCalls' = <<>>
    /\ UNCHANGED <<scorers, gprob>>
    /\ NoCobeDetail
    /\ UNCHANGED <<nvars, tvars>>

\* group.end(reply)
GroupEnd(reply) ==
    /\ \E r \in {GroupEndLoop(scorers, <<>>, cache)} :
           /\ outcome' = IF r.status = "return" THEN ReturnedNone
                         ELSE [status |-> "raise", type |-> "Exception", value |-> 0]
           /\ endCalls' = r.called
           /\ cache' = r.cache
    /\ lastOp' = "end"
    /\ callee' = "group"
    /\ arg' = NoReply
    /\ UNCHANGED <<scorers, gprob>>
    /\ NoCobeDetail
    /\ UNCHANGED <<nvars, tvars>>

NextGroup ==
    \/ \E pair \in Pairs : AddScorer(pair.weight, pair.scorer)
    \/ \E reply \in SmallReplies : GroupScore(reply)
    \/ \E reply \in SmallReplies : GroupEnd(reply)

SpecGroup == InitGroup /\ [][NextGroup]_vars

-----------------------------------------------------------------------------
(* normalize applied to a pair of raw scores *)

MaxRaw == Pow2(FracBits + MantBits + 2)
MinRaw == 0 - 2 * One
RawScores == {k \in MinRaw..MaxRaw : IsFloat(k)}

InitNormalize ==
    /\ IdleTokenizer
    /\ IdleScorer
    /\ IdleGroup
    /\ raw1 \in RawScores
    /\ raw2 \in RawScores
    /\ norm1 = 0
    /\ norm2 = 0
    /\ npc = "input"

Normalize ==
    /\ npc = "input"
    /\ norm1' = normalize(raw1)
    /\ norm2' = normalize(raw2)
    /\ npc' = "done"
    /\ UNCHANGED <<raw1, raw2>>
    /\ UNCHANGED <<tvars, cvars, gvars>>

NextNormalize == Normalize

SpecNormalize == InitNormalize /\ [][NextNormalize]_vars

-----------------------------------------------------------------------------
(* C1 *)

\* C1: the cache is empty right after end, and the first score call after an
\* end queries the graph again for every edge of its reply whose edge_id was
\* cached when end was called, and uses the value the graph returns now.
C1_CacheReset ==
    /\ (lastOp = "end" => DOMAIN cache = {})
    /\ (lastOp = "score" /\ roundCalls = 1 =>
           \A i \in 1..Len(arg.edges) :
               LET id == arg.edges[i].edge_id
               IN  id \in DOMAIN ended =>
                       Count(queried, id) >= 1 /\ used[i] = gprob[id])

\* The first score call after an end used, for an edge cached in the round
\* before, a probability other than the one that was cached.
C1_Witness ==
    /\ lastOp = "score" /\ roundCalls = 1
    /\ \E i \in 1..Len(arg.edges) :
           LET id == arg.edges[i].edge_id
           IN  id \in DOMAIN ended /\ used[i] # ended[id] /\ Count(queried, id) >= 1

-----------------------------------------------------------------------------
(* C9 *)

\* C9: with n_words = len(edges) - 2*(order - 1) + (edges with has_space), the
\* information is divided by sqrt(n_words - 1) exactly when n_words > 8 and
\* is left as it is when n_words <= 8; the division by n_words never happens.
C9_Damping ==
    lastOp = "score" =>
        /\ nWords = Len(arg.edges) - 2 * (arg.order - 1)
                      + Cardinality({i \in 1..Len(arg.edges) : arg.edges[i].has_space})
        /\ (nWords > 8 => damping = "sqrt"
                            /\ info = FDiv(bits, FSqrt(FromInt(nWords - 1))))
        /\ (nWords <= 8 => damping = "none" /\ info = bits)
        /\ damping # "linear"

\* A reply of 16 or more words was damped by the square root.
C9_Witness ==
    lastOp = "score" /\ nWords >= 16 /\ damping = "sqrt" /\ info < bits

-----------------------------------------------------------------------------
(* C10 *)

\* What a score step does to an edge_id that is cached (hit) or is not (miss).
C10_ScoreStep ==
    lastOp' = "score" =>
        /\ \A id \in DOMAIN cache :
              /\ id \in DOMAIN cache' /\ cache'[id] = cache[id]
              /\ Count(queried', id) = 0
              /\ \A i \in 1..Len(arg'.edges) :
                     arg'.edges[i].edge_id = id => used'[i] = cache[id]
        /\ \A id \in ReplyIds(arg') \ DOMAIN cache :
              /\ Count(queried', id) = 1
              /\ id \in DOMAIN cache' /\ cache'[id] = gprob[id]
              /\ \A i \in 1..Len(arg'.edges) :
                     arg'.edges[i].edge_id = id => used'[i] = gprob[id]

\* C10: between two end calls get_edge_probability is called at most once per
\* edge_id: the first occurrence queries the graph and stores the result, every
\* later occurrence in the round uses the stored value without a query, and a
\* score call never removes or overwrites a cache entry.
C10_OneQueryPerRound ==
    /\ [](\A id \in EdgeIds : nq[id] <= 1)
    /\ [][C10_ScoreStep]_vars

\* A second score call of a round used a cached probability, without a
\* query, that the graph no longer returns.
C10_Witness ==
    /\ lastOp = "score" /\ roundCalls = 2
    /\ \E i \in 1..Len(arg.edges) :
           LET id == arg.edges[i].edge_id
           IN  Count(queried, id) = 0 /\ used[i] # gprob[id] /\ nq[id] = 1

-----------------------------------------------------------------------------
(* C2 *)

Members == [i \in 1..Len(scorers) |-> scorers[i].scorer]

\* C2: ScorerGroup.end calls end on each member once per registration, in the
\* order of registration; if a member's end fails, the failure reaches the
\* caller and the end of the members registered after it is not called.
C2_EndInOrder ==
    (lastOp = "end" /\ callee = "group") =>
        LET failing == {i \in 1..Len(scorers) : scorers[i].scorer = "raisingEnd"}
        IN  IF failing = {}
            THEN outcome.status = "return" /\ endCalls = Members
            ELSE LET first == CHOOSE i \in failing : \A j \in failing : i <= j
                 IN  outcome.status = "raise" /\ endCalls = SubSeq(Members, 1, first)

\* An end of the group that a member's failure cut short after two calls.
C2_Witness ==
    /\ lastOp = "end" /\ callee = "group"
    /\ outcome.status = "raise"
    /\ Len(endCalls) = 2 /\ Len(scorers) = 3

-----------------------------------------------------------------------------
(* C3 *)

\* weight_i * scorer_i.score(reply) for the i-th pair and the reply scored
Term(i) == FMul(scorers[i].weight, MemberScore(scorers[i].scorer, cache, gprob, arg).value)

\* The terms added up in the order of registration, and in the reverse order.
RECURSIVE SumUpTo(_)
SumUpTo(n) == IF n = 0 THEN 0 ELSE FAdd(SumUpTo(n - 1), Term(n))

RECURSIVE SumDownFrom(_)
SumDownFrom(i) ==
    IF i > Len(scorers) THEN 0 ELSE FAdd(SumDownFrom(i + 1), Term(i))

-----------------------------------------------------------------------------
(* C4 *)

\* C4: score called on the base Scorer ends in a raised error for every
\* reply; it never returns a value to the caller.
C4_BaseScoreRaises ==
    (lastOp = "score" /\ callee = "base") => outcome.status = "raise"

-----------------------------------------------------------------------------
(* C5 *)

\* C5 as stated: normalize returns every negative input unchanged; for every
\* non-negative input the result is in [0, 1), normalize(0) = 0, and
\* raw1 < raw2 implies normalize(raw1) < normalize(raw2).
C5_AsStated ==
    npc = "done" =>
        /\ (raw1 < 0 => norm1 = raw1)
        /\ (raw1 >= 0 => 0 <= norm1 /\ norm1 < One)
        /\ (raw1 = 0 => norm1 = 0)
        /\ (0 <= raw1 /\ raw1 < raw2 => norm1 < norm2)

\* C5 amended: normalize returns every negative input unchanged; for every
\* non-negative input the result is in [0, 1] (1.0 is reached by rounding),
\* normalize(0) = 0, and raw1 < raw2 implies normalize(raw1) <= normalize(raw2).
C5_NormalizeBounds ==
    npc = "done" =>
        /\ (raw1 < 0 => norm1 = raw1)
        /\ (raw1 >= 0 => 0 <= norm1 /\ norm1 <= One)
        /\ (raw1 = 0 => norm1 = 0)
        /\ (0 <= raw1 /\ raw1 < raw2 => norm1 <= norm2)

\* Two distinct positive inputs normalized to different values inside (0, 1).
C5_Witness ==
    /\ npc = "done"
    /\ raw1 > 0 /\ raw1 < raw2
    /\ 0 < norm1 /\ norm1 < norm2 /\ norm2 < One

-----------------------------------------------------------------------------
(* C6 *)

IsWhitespaceToken(token) ==
    Len(token) > 0 /\ \A j \in 1..Len(token) : token[j] \in SpaceChars

\* C6: every token returned by CobeTokenizer.split that consists only of
\* whitespace characters is the single space character, whichever whitespace
\* characters made up the run and whichever of them came first.
C6_WhitespaceTokensAreOneSpace ==
    (tkz = "CobeTokenizer" /\ tpc = "tokens" /\ (origin = "text" \/ rounds >= 1)) =>
        \A i \in 1..Len(toks) : IsWhitespaceToken(toks[i]) => toks[i] = <<" ">>

-----------------------------------------------------------------------------
(* C7 *)

\* Whether the claim has chars[i] capitalized: it is the first alphabetic
\* character of the text, or the first one after a terminator that is
\* immediately followed by a whitespace character, wherever that is.
ClaimedCapital(chars, i) ==
    LET noAlpha(a, b) == \A m \in a..b : chars[m] \notin AlphaChars
    IN  \/ noAlpha(1, i - 1)
        \/ \E j \in 1..(i - 2) :
              /\ chars[j] \in Terminators
              /\ chars[j + 1] \in SpaceChars
              /\ noAlpha(j + 1, i - 1)

ClaimedJoin(chars) ==
    [i \in 1..Len(chars) |->
        IF chars[i] \notin AlphaChars THEN chars[i]
        ELSE IF ClaimedCapital(chars, i) THEN upper(chars[i]) ELSE lower(chars[i])]

\* C7: MegaHALTokenizer.join returns the concatenation of the tokens with an
\* alphabetic character uppercase exactly when it is the first alphabetic
\* character of the text or the first one after '.', '?' or '!' immediately
\* followed by whitespace, at any position; every other one is lowercase.
C7_JoinCapitalization ==
    (tkz = "MegaHALTokenizer" /\ tpc = "text" /\ rounds >= 1) =>
        cur = ClaimedJoin(Concat(toks))

-----------------------------------------------------------------------------
(* C8 *)

\* C8 as stated: for each tokenizer and every input text x, with
\* N(x) = join(split(x)): N(N(x)) = N(x) and split(N(x)) = split(x).
C8_AsStated ==
    origin = "text" =>
        /\ (tpc = "text" /\ rounds >= 2 => cur = firstText)
        /\ (tpc = "tokens" /\ rounds >= 1 => toks = firstTokens)

AsciiLetters == {"k", "K"}

OnlyAsciiLetters(text) ==
    \A i \in 1..Len(text) : text[i] \in AlphaChars => text[i] \in AsciiLetters

\* C8 amended: for each tokenizer and every input text x, N(N(x)) = N(x);
\* split(N(x)) = split(x) for WhitespaceTokenizer and CobeTokenizer, and for
\* MegaHALTokenizer when every alphabetic character of x is an ASCII letter.
C8_Idempotent ==
    origin = "text" =>
        /\ (tpc = "text" /\ rounds >= 2 => cur = firstText)
        /\ (tpc = "tokens" /\ rounds >= 1
                /\ (tkz = "MegaHALTokenizer" => OnlyAsciiLetters(input))
             => toks = firstTokens)

\* A second round trip that reproduced a normalization which had changed
\* the input, over more than one token.
C8_Witness ==
    /\ origin = "text" /\ tpc = "text" /\ rounds = 2
    /\ cur = firstText /\ cur # input
    /\ toks = firstTokens /\ Len(toks) > 1

=============================================================================
